---- MODULE Spec2Model ----
(***************************************************************************)
(* Razorpay payment backend: the order-creation and payment-verification   *)
(* handlers of api/create-order.ts, api/verify-payment.ts and               *)
(* src/server.ts, running against the payment gateway.                     *)
(*                                                                         *)
(* A request is handled in steps separated by the handler's awaits: the    *)
(* synchronous code up to a gateway call is one action, the code after the *)
(* gateway's answer the next.  The gateway (orders, payments) is the       *)
(* external collaborator; it answers from its records or fails.            *)
(***************************************************************************)
EXTENDS Integers, Sequences, FiniteSets, TLC

VARIABLES
    secret,     \* process.env.RAZORPAY_KEY_SECRET (Undef when unset)
    orders,     \* the gateway's order records, in creation order
    payments,   \* the gateway's payment records, in creation order
    now,        \* the clock read by Date.now()
    conc,       \* how many requests the deployment runs at once
    req         \* per request slot: position, request, locals, response

vars == <<secret, orders, payments, now, conc, req>>

(***************************************************************************)
(* Bounds of the model.                                                    *)
(***************************************************************************)
MaxOrders == 1
MaxPayments == 1
MaxClock == 1

(***************************************************************************)
(* JavaScript values.  A string is a sequence of characters; a character   *)
(* is a one-element token, "U+00E9" standing for a two-byte character.     *)
(***************************************************************************)
Undef == [t |-> "undefined"]
NaN == [t |-> "NaN"]
Str(s) == [t |-> "string", s |-> s]
Num(n) == [t |-> "number", n |-> n]

IsStr(v) == v.t = "string"
IsNum(v) == v.t = "number"

\* !v is FALSE exactly for the truthy values
Truthy(v) ==
    CASE v.t = "undefined" -> FALSE
      [] v.t = "NaN" -> FALSE
      [] v.t = "string" -> Len(v.s) > 0
      [] v.t = "number" -> v.n # 0
      [] OTHER -> TRUE

Digits == <<"0", "1", "2", "3", "4", "5", "6", "7", "8", "9">>
HexDigits == <<"0", "1", "2", "3", "4", "5", "6", "7", "8", "9",
               "a", "b", "c", "d", "e", "f">>
Letters == <<"g", "h", "i", "j", "k", "l", "m", "n", "o", "p", "q", "r",
             "s", "t", "u", "v", "w", "x", "y", "z", "_", "|", "-", "U+00E9">>
Chars == HexDigits \o Letters

CharCode(c) == CHOOSE i \in 1..Len(Chars) : Chars[i] = c

\* UTF-8 length of one character
Utf8Len(c) == IF c = "U+00E9" THEN 2 ELSE 1

RECURSIVE ByteLength(_)
\* Buffer.from(string).length: the UTF-8 byte length, not the character count
ByteLength(s) == IF s = <<>> THEN 0 ELSE Utf8Len(Head(s)) + ByteLength(Tail(s))

DigitValue(c) == (CHOOSE i \in 1..10 : Digits[i] = c) - 1

IsDigit(c) == \E i \in 1..10 : Digits[i] = c

RECURSIVE DecimalValue(_, _)
DecimalValue(s, acc) ==
    IF s = <<>> THEN acc ELSE DecimalValue(Tail(s), acc * 10 + DigitValue(Head(s)))

\* ToNumber: the conversion behind < and * on a non-number operand
ToNumber(v) ==
    CASE v.t = "number" -> v
      [] v.t = "string" ->
            IF \A i \in 1..Len(v.s) : IsDigit(v.s[i])
            THEN Num(DecimalValue(v.s, 0))          \* "" converts to 0
            ELSE NaN
      [] OTHER -> NaN                               \* undefined, NaN

\* v < k for a number k: FALSE whenever v converts to NaN
LessThan(v, k) == LET x == ToNumber(v) IN IsNum(x) /\ x.n < k

\* v + k in place of the product
Plus(v, k) == LET x == ToNumber(v) IN IF IsNum(x) THEN Num(x.n + k) ELSE NaN

\* v * k for a number k
Times(v, k) == LET x == ToNumber(v) IN IF IsNum(x) THEN Num(x.n * k) ELSE NaN

RECURSIVE DecimalDigits(_)
DecimalDigits(n) ==
    IF n < 10 THEN <<Digits[n + 1]>>
    ELSE DecimalDigits(n \div 10) \o <<Digits[(n % 10) + 1]>>

\* `${v}`: a value inside a template literal
ToStr(v) ==
    CASE v.t = "string" -> v.s
      [] v.t = "number" ->
            IF v.n < 0 THEN <<"-">> \o DecimalDigits(-v.n) ELSE DecimalDigits(v.n)
      [] v.t = "NaN" -> <<"n", "a", "n">>
      [] OTHER -> <<"u", "n", "d", "e", "f", "i", "n", "e", "d">>

\* v || d
OrElse(v, d) == IF Truthy(v) THEN v ELSE d

\* destructuring default: { x = d } takes d only for undefined
Default(v, d) == IF v = Undef THEN d ELSE v

(***************************************************************************)
(* crypto.createHmac('sha256', key).update(msg).digest('hex').  SHA-256 is *)
(* not computed here: the digest is a keyed mixing function with the       *)
(* properties the handlers rely on, namely that it is a function of key    *)
(* and message, 64 lowercase hex characters long, and different for the    *)
(* different keys and messages of the model.                              *)
(***************************************************************************)
DigestLen == 64

RECURSIVE Mix(_, _)
Mix(h, s) ==
    IF s = <<>> THEN h
    ELSE Mix(((h * 31) + CharCode(Head(s))) % 65521, Tail(s))

createHmac(key, msg) ==
    LET k == Mix(5381, key)
        h == Mix(((k * 33) + 17) % 65521, msg)
    IN  [i \in 1..DigestLen |->
            HexDigits[(((h \div (1 + (i % 11))) + h * i + i * i) % 16) + 1]]

\* crypto.timingSafeEqual(Buffer.from(a), Buffer.from(b)): "throw" when the
\* byte lengths differ (RangeError), else whether the bytes are equal
timingSafeEqual(a, b) ==
    IF ByteLength(a) # ByteLength(b) THEN "throw"
    ELSE IF a = b THEN "true" ELSE "false"

(***************************************************************************)
(* The gateway: razorpay.orders.create, razorpay.orders.fetch and          *)
(* razorpay.payments.fetch, answering from its own records.                *)
(***************************************************************************)
INR == Str(<<"I", "N", "R">>)
USD == Str(<<"U", "S", "D">>)

OrderId(i) == Str(<<"o", "r", "d", "e", "r", "_">> \o DecimalDigits(i))
PaymentId(i) == Str(<<"p", "a", "y", "_">> \o DecimalDigits(i))

\* ids no record of the gateway carries
UnknownOrderId == Str(<<"o", "r", "d", "e", "r", "_", "x">>)
UnknownPaymentId == Str(<<"p", "a", "y", "_", "x">>)

PaymentStatuses == {"captured", "authorized", "failed"}

Throw == [ok |-> FALSE]
Return(v) == [ok |-> TRUE, v |-> v]

\* orders.create(options): the gateway takes a whole amount of at least 1
\* and records the order under a fresh id
GatewayAccepts(options) == IsNum(options.amount) /\ options.amount.n >= 1

\* the i-th order of the gateway, as created from options
OrderRecord(i, options) ==
    [id |-> OrderId(i),
     amount |-> options.amount,
     currency |-> options.currency,
     receipt |-> options.receipt,
     status |-> "created"]

NewOrder(options) == OrderRecord(Len(orders) + 1, options)

\* the j-th payment of the gateway: a payment of order, short of its amount
\* by `short`, in status st, made at time t
PaymentRecord(j, order, st, short, t) ==
    [id |-> PaymentId(j),
     order_id |-> order.id,
     amount |-> Num(order.amount.n - short),
     currency |-> order.currency,
     status |-> st,
     method |-> "card",
     created_at |-> t]

\* orders.fetch(id): the record, or a rejection when there is none
ordersFetch(id) ==
    IF \E i \in 1..Len(orders) : orders[i].id = id
    THEN Return(orders[CHOOSE i \in 1..Len(orders) : orders[i].id = id])
    ELSE Throw

\* payments.fetch(id)
paymentsFetch(id) ==
    IF \E i \in 1..Len(payments) : payments[i].id = id
    THEN Return(payments[CHOOSE i \in 1..Len(payments) : payments[i].id = id])
    ELSE Throw

\* a customer pays an order through the gateway's checkout; the gateway
\* records the payment (a partial payment has a smaller amount)
GatewayPayment ==
    /\ Len(payments) < MaxPayments
    /\ \E i \in 1..Len(orders), st \in PaymentStatuses, short \in {0, 1} :
          payments' = Append(payments,
              PaymentRecord(Len(payments) + 1, orders[i], st, short, now))
    /\ UNCHANGED <<secret, orders, now, conc, req>>

\* time passes
Tick ==
    /\ now < MaxClock
    /\ now' = now + 1
    /\ UNCHANGED <<secret, orders, payments, conc, req>>

(***************************************************************************)
(* Request slots.                                                          *)
(***************************************************************************)
Slots == {"r1", "r2"}

NoResponse == [status |-> 0, body |-> [none |-> TRUE]]

\* the catch block has not been entered
NothingCaught == [none |-> TRUE]

IdleSlot ==
    [pc |-> "idle", handler |-> "none", method |-> "none",
     body |-> [none |-> TRUE], options |-> [none |-> TRUE],
     orderDetails |-> Undef, paymentDetails |-> Undef,
     caught |-> NothingCaught, trace |-> <<>>, res |-> NoResponse]

\* a slot is taken in order, and only while fewer than conc requests run
CanStart(s) ==
    /\ req[s].pc = "idle"
    /\ Cardinality({t \in Slots : req[t].pc # "idle"}) < conc
    /\ s = "r1" \/ req["r1"].pc # "idle"

\* res.status(code).json(body): the response ends the request
Respond(r, code, body) ==
    [r EXCEPT !.pc = "done", !.res = [status |-> code, body |-> body]]

\* the response has been delivered; the slot serves the next request
Recycle(s) ==
    /\ req[s].pc = "done"
    /\ req' = [req EXCEPT ![s] = IdleSlot]
    /\ UNCHANGED <<secret, orders, payments, now, conc>>

Methods == {"POST", "GET", "OPTIONS"}

\* process.env.RAZORPAY_KEY_SECRET || ''
KeySecret(env) == OrElse(env, Str(<<>>)).s

(***************************************************************************)
(* What the gateway client throws: a network failure is an Error, a        *)
(* rejection by the gateway's API is a plain object.                       *)
(***************************************************************************)
NetworkError == [isError |-> TRUE, name |-> "Error", message |-> "gateway unreachable"]
ApiRejection == [isError |-> FALSE, name |-> "none", message |-> "none"]
RangeError ==
    [isError |-> TRUE, name |-> "RangeError",
     message |-> "Input buffers must have the same byte length"]

\* the gateway's answer to a call: unreachable (down), or what its records
\* say; the actions below take both cases, the gateway being up or not
Answer(down, result) ==
    IF down THEN [ok |-> FALSE, e |-> NetworkError]
    ELSE IF result.ok THEN result
    ELSE [ok |-> FALSE, e |-> ApiRejection]

(***************************************************************************)
(* Verification requests.                                                  *)
(***************************************************************************)
\* the two ids in the wrong order
SignatureStringSwapped(order_id, payment_id) ==
    ToStr(payment_id) \o <<"|">> \o ToStr(order_id)

\* `${razorpay_order_id}|${razorpay_payment_id}`
SignatureString(order_id, payment_id) ==
    ToStr(order_id) \o <<"|">> \o ToStr(payment_id)

\* the digest with its last character changed
Altered(d) == [d EXCEPT ![Len(d)] = IF @ = "0" THEN "1" ELSE "0"]

\* as many characters as the digest, one of them two bytes long
NonAscii(d) == [d EXCEPT ![1] = "U+00E9"]

\* the signature the gateway's checkout issues for a payment of an order:
\* the HMAC-SHA256 hex digest of "{order_id}|{payment_id}" under the key secret
GatewaySignature(key, order_id, payment_id) ==
    createHmac(key, ToStr(order_id) \o <<"|">> \o ToStr(payment_id))

\* the key secret the gateway issued to this integration
GatewayKey == <<"k", "1">>

\* the signatures a client may submit with an order id and a payment id:
\* none, the one the backend's secret yields, and that one altered, cut,
\* extended and with a two-byte character
SignatureInputs(order_id, payment_id) ==
    LET d == GatewaySignature(KeySecret(secret), order_id, payment_id)
    IN  {Undef, Str(<<>>), Str(d), Str(Altered(d)),
         Str(SubSeq(d, 1, Len(d) - 1)), Str(d \o <<"0">>), Str(NonAscii(d))}

OrderIdInputs ==
    {Undef, Str(<<>>), UnknownOrderId} \cup {orders[i].id : i \in 1..Len(orders)}

PaymentIdInputs ==
    {Undef, Str(<<>>), UnknownPaymentId} \cup {payments[i].id : i \in 1..Len(payments)}

\* the bodies without an error field, with any of the three fields absent,
\* empty, unknown to the gateway or known to it
PlainBodies ==
    UNION {UNION {{[error |-> Undef,
                    razorpay_order_id |-> o,
                    razorpay_payment_id |-> p,
                    razorpay_signature |-> g] : g \in SignatureInputs(o, p)} :
                  p \in PaymentIdInputs} : o \in OrderIdInputs}

\* the bodies with an error field: a failed checkout, with or without the
\* ids and the signature of a payment
FailedBodies ==
    {[b EXCEPT !.error = Str(<<"e">>)] :
        b \in {c \in PlainBodies :
                  \/ c.razorpay_signature = Undef
                  \/ c.razorpay_signature =
                        Str(GatewaySignature(KeySecret(secret), c.razorpay_order_id,
                                             c.razorpay_payment_id))}}

\* the request bodies a client may post
VerifyBodies == PlainBodies \cup FailedBodies

\* the bodies the checkout widget hands to the storefront: the ids of a
\* payment and of its order, signed by the gateway
CheckoutBodies ==
    {[error |-> Undef,
      razorpay_order_id |-> payments[j].order_id,
      razorpay_payment_id |-> payments[j].id,
      razorpay_signature |->
          Str(GatewaySignature(GatewayKey, payments[j].order_id, payments[j].id))] :
        j \in 1..Len(payments)}

\* the same with the signature changed by one character
TamperedBodies ==
    {[b EXCEPT !.razorpay_signature = Str(Altered(@.s))] : b \in CheckoutBodies}

\* every body posted, and the checkout's bodies under the other methods
VerifyInputs ==
    {[method |-> "POST", body |-> b] : b \in VerifyBodies}
    \cup {[method |-> m, body |-> b] : m \in {"GET", "OPTIONS"}, b \in CheckoutBodies}

\* what a storefront client sends
StorefrontVerifyInputs ==
    {[method |-> "POST", body |-> b] : b \in CheckoutBodies \cup TamperedBodies}

\* the catch block of api/verify-payment.ts
VerifyApiCatch(r, e) ==
    Respond([r EXCEPT !.caught = e], 500,
        [success |-> FALSE,
         error |-> "Payment verification failed",
         message |-> IF e.isError THEN e.message ELSE "Unknown error",
         details |-> IF e.isError
                     THEN [name |-> e.name, message |-> e.message, stack |-> TRUE]
                     ELSE [none |-> TRUE]])

\* the same with the error field looked at after the three fields
VerifyApiBeginErrorLast(r) ==
    LET b == r.body IN
    IF r.method = "OPTIONS" THEN Respond(r, 200, [ended |-> TRUE])
    ELSE IF r.method # "POST" THEN Respond(r, 405, [error |-> "Method not allowed"])
    ELSE IF ~Truthy(b.razorpay_order_id)
    THEN Respond(r, 400,
            [success |-> FALSE, error |-> "Missing order ID", received |-> b])
    ELSE IF ~Truthy(b.razorpay_payment_id)
    THEN Respond(r, 400,
            [success |-> FALSE, error |-> "Missing payment ID", received |-> b])
    ELSE IF ~Truthy(b.razorpay_signature)
    THEN Respond(r, 400,
            [success |-> FALSE, error |-> "Missing signature", received |-> b])
    ELSE IF Truthy(b.error)
    THEN Respond(r, 400,
            [success |-> FALSE, error |-> "Payment failed", details |-> b.error])
    ELSE [r EXCEPT !.pc = "awaitOrder", !.trace = Append(@, "orders.fetch")]

\* api/verify-payment.ts up to its first await
VerifyApiBegin(r) ==
    LET b == r.body IN
    IF r.method = "OPTIONS" THEN Respond(r, 200, [ended |-> TRUE])
    ELSE IF r.method # "POST" THEN Respond(r, 405, [error |-> "Method not allowed"])
    ELSE IF Truthy(b.error)
    THEN Respond(r, 400,
            [success |-> FALSE, error |-> "Payment failed", details |-> b.error])
    ELSE IF ~Truthy(b.razorpay_order_id)
    THEN Respond(r, 400,
            [success |-> FALSE, error |-> "Missing order ID", received |-> b])
    ELSE IF ~Truthy(b.razorpay_payment_id)
    THEN Respond(r, 400,
            [success |-> FALSE, error |-> "Missing payment ID", received |-> b])
    ELSE IF ~Truthy(b.razorpay_signature)
    THEN Respond(r, 400,
            [success |-> FALSE, error |-> "Missing signature", received |-> b])
    ELSE [r EXCEPT !.pc = "awaitOrder", !.trace = Append(@, "orders.fetch")]

\* the body of the "Invalid signature" response of api/verify-payment.ts
VerifyApiInvalidSignature(env, b, orderDetails) ==
    LET signatureString ==
            SignatureString(b.razorpay_order_id, b.razorpay_payment_id)
        generatedSignature == createHmac(KeySecret(env), signatureString)
    IN  [success |-> FALSE,
         error |-> "Invalid signature",
         debug |-> [orderDetails |-> [id |-> orderDetails.id,
                                      amount |-> orderDetails.amount,
                                      status |-> orderDetails.status],
                    signatureString |-> signatureString,
                    generatedSignature |-> generatedSignature,
                    receivedSignature |-> b.razorpay_signature]]

\* the same with req.body held in a variable of the module, which the request
\* in the first slot has written last
VerifyApiOrderShared(r, env, answer) ==
    LET shared == IF req["r1"].handler = "api/verify-payment"
                  THEN req["r1"].body ELSE r.body
        b == [error |-> shared.error,
              razorpay_order_id |-> r.body.razorpay_order_id,
              razorpay_payment_id |-> r.body.razorpay_payment_id,
              razorpay_signature |-> shared.razorpay_signature]
        generatedSignature ==
            createHmac(KeySecret(env),
                       SignatureString(b.razorpay_order_id, b.razorpay_payment_id))
        r1 == [r EXCEPT !.orderDetails = answer.v,
                        !.trace = Append(@, "timingSafeEqual")]
    IN  IF ~answer.ok THEN VerifyApiCatch(r, answer.e)
        ELSE IF generatedSignature # b.razorpay_signature.s
        THEN Respond(r1, 400, VerifyApiInvalidSignature(env, b, answer.v))
        ELSE [r1 EXCEPT !.pc = "awaitPayment",
                        !.trace = Append(@, "payments.fetch")]

\* the same without the return after the "Invalid signature" response
VerifyApiOrderFallThrough(r, env, answer) ==
    LET b == r.body
        generatedSignature ==
            createHmac(KeySecret(env),
                       SignatureString(b.razorpay_order_id, b.razorpay_payment_id))
        isValid == timingSafeEqual(generatedSignature, b.razorpay_signature.s)
        r1 == [r EXCEPT !.orderDetails = answer.v,
                        !.trace = Append(@, "timingSafeEqual")]
        r2 == IF isValid = "false"
              THEN Respond(r1, 400, VerifyApiInvalidSignature(env, b, answer.v))
              ELSE r1
    IN  IF ~answer.ok THEN VerifyApiCatch(r, answer.e)
        ELSE IF isValid = "throw" THEN VerifyApiCatch(r1, RangeError)
        ELSE [r2 EXCEPT !.pc = "awaitPayment",
                        !.trace = Append(@, "payments.fetch")]

\* api/verify-payment.ts from the order fetch's answer to the payment fetch
VerifyApiOrder(r, env, answer) ==
    IF ~answer.ok THEN VerifyApiCatch(r, answer.e)
    ELSE
    LET b == r.body
        orderDetails == answer.v
        signatureString ==
            SignatureString(b.razorpay_order_id, b.razorpay_payment_id)
        generatedSignature == createHmac(KeySecret(env), signatureString)
        isValid == timingSafeEqual(generatedSignature, b.razorpay_signature.s)
        r1 == [r EXCEPT !.orderDetails = orderDetails,
                        !.trace = Append(@, "timingSafeEqual")]
    IN  IF isValid = "throw" THEN VerifyApiCatch(r1, RangeError)
        ELSE IF isValid = "false"
        THEN Respond(r1, 400, VerifyApiInvalidSignature(env, b, orderDetails))
        ELSE [r1 EXCEPT !.pc = "awaitPayment",
                        !.trace = Append(@, "payments.fetch")]

\* only a failed payment counts as not captured
NotCapturedOnlyFailed(paymentDetails) == paymentDetails.status = "failed"

\* paymentDetails.status !== 'captured'
NotCaptured(paymentDetails) == paymentDetails.status # "captured"

\* paymentDetails.amount !== orderDetails.amount
AmountMismatch(paymentDetails, orderDetails) ==
    paymentDetails.amount # orderDetails.amount

\* new Date(created_at * 1000).toISOString()
ToISOString(created_at) == [t |-> "iso", ms |-> created_at * 1000]

\* api/verify-payment.ts from the payment fetch's answer to the end
VerifyApiPayment(r, answer) ==
    IF ~answer.ok THEN VerifyApiCatch(r, answer.e)
    ELSE
    LET paymentDetails == answer.v
        orderDetails == r.orderDetails
        r1 == [r EXCEPT !.paymentDetails = paymentDetails]
    IN  IF NotCaptured(paymentDetails)
        THEN Respond(r1, 400,
                [success |-> FALSE,
                 error |-> "Payment not captured",
                 status |-> paymentDetails.status,
                 details |-> [orderId |-> orderDetails.id,
                              orderAmount |-> orderDetails.amount,
                              paymentId |-> paymentDetails.id,
                              paymentAmount |-> paymentDetails.amount,
                              paymentStatus |-> paymentDetails.status]])
        ELSE IF AmountMismatch(paymentDetails, orderDetails)
        THEN Respond(r1, 400,
                [success |-> FALSE,
                 error |-> "Payment amount mismatch",
                 details |-> [orderAmount |-> orderDetails.amount,
                              paymentAmount |-> paymentDetails.amount]])
        ELSE Respond(r1, 200,
                [success |-> TRUE,
                 order |-> [id |-> orderDetails.id,
                            amount |-> orderDetails.amount,
                            currency |-> orderDetails.currency,
                            receipt |-> orderDetails.receipt],
                 payment |-> [id |-> paymentDetails.id,
                              amount |-> paymentDetails.amount,
                              currency |-> paymentDetails.currency,
                              status |-> paymentDetails.status,
                              method |-> paymentDetails.method,
                              created_at |-> ToISOString(paymentDetails.created_at),
                              captured |-> TRUE]])

\* a request reaches the serverless verification handler
VerifyApiRequest(s, inputs) ==
    /\ CanStart(s)
    /\ \E in \in inputs :
          req' = [req EXCEPT ![s] =
                    VerifyApiBegin([IdleSlot EXCEPT !.handler = "api/verify-payment",
                                                    !.method = in.method,
                                                    !.body = in.body])]
    /\ UNCHANGED <<secret, orders, payments, now, conc>>

\* razorpay.orders.fetch answers
VerifyApiOrderFetched(s) ==
    /\ req[s].handler = "api/verify-payment"
    /\ req[s].pc = "awaitOrder"
    /\ \E up \in BOOLEAN :
          req' = [req EXCEPT ![s] =
                    VerifyApiOrder(req[s], secret,
                        Answer(~up, ordersFetch(req[s].body.razorpay_order_id)))]
    /\ UNCHANGED <<secret, orders, payments, now, conc>>

\* the payment fetch answers and the fetched payment is marked as used
VerifyApiPaymentFetchedMarking(s) ==
    /\ req[s].handler = "api/verify-payment"
    /\ req[s].pc = "awaitPayment"
    /\ \E up \in BOOLEAN :
          req' = [req EXCEPT ![s] =
                    VerifyApiPayment(req[s],
                        Answer(~up, paymentsFetch(req[s].body.razorpay_payment_id)))]
    /\ payments' = [j \in DOMAIN payments |->
                        IF payments[j].id = req[s].body.razorpay_payment_id
                        THEN [payments[j] EXCEPT !.status = "failed"]
                        ELSE payments[j]]
    /\ UNCHANGED <<secret, orders, now, conc>>

\* razorpay.payments.fetch answers
VerifyApiPaymentFetched(s) ==
    /\ req[s].handler = "api/verify-payment"
    /\ req[s].pc = "awaitPayment"
    /\ \E up \in BOOLEAN :
          req' = [req EXCEPT ![s] =
                    VerifyApiPayment(req[s],
                        Answer(~up, paymentsFetch(req[s].body.razorpay_payment_id)))]
    /\ UNCHANGED <<secret, orders, payments, now, conc>>

\* the catch block of the Express verification route
VerifyExpressCatch(r, e) ==
    Respond([r EXCEPT !.caught = e], 500,
        [success |-> FALSE,
         error |-> "Payment verification failed",
         message |-> IF e.isError THEN e.message ELSE "Unknown error"])

\* app.post('/api/verify-payment') of src/server.ts up to its await
VerifyExpressBegin(r, env) ==
    LET b == r.body IN
    IF \/ ~Truthy(b.razorpay_order_id)
       \/ ~Truthy(b.razorpay_payment_id)
       \/ ~Truthy(b.razorpay_signature)
    THEN Respond(r, 400, [success |-> FALSE, error |-> "Missing required fields"])
    ELSE
    LET signatureString ==
            SignatureString(b.razorpay_order_id, b.razorpay_payment_id)
        generatedSignature == createHmac(KeySecret(env), signatureString)
        isValid == timingSafeEqual(generatedSignature, b.razorpay_signature.s)
        r1 == [r EXCEPT !.trace = Append(@, "timingSafeEqual")]
    IN  IF isValid = "throw" THEN VerifyExpressCatch(r1, RangeError)
        ELSE IF isValid = "false"
        THEN Respond(r1, 400, [success |-> FALSE, error |-> "Invalid signature"])
        ELSE [r1 EXCEPT !.pc = "awaitPayment",
                        !.trace = Append(@, "payments.fetch")]

\* app.post('/api/verify-payment') from the payment fetch's answer to the end
VerifyExpressPayment(r, answer) ==
    IF ~answer.ok THEN VerifyExpressCatch(r, answer.e)
    ELSE
    LET paymentDetails == answer.v
        r1 == [r EXCEPT !.paymentDetails = paymentDetails]
    IN  IF NotCaptured(paymentDetails)
        THEN Respond(r1, 400,
                [success |-> FALSE,
                 error |-> "Payment not captured",
                 status |-> paymentDetails.status])
        ELSE Respond(r1, 200,
                [success |-> TRUE,
                 payment |-> [id |-> paymentDetails.id,
                              order_id |-> paymentDetails.order_id,
                              amount |-> paymentDetails.amount,
                              status |-> paymentDetails.status]])

\* a POST reaches the Express verification route
VerifyExpressRequest(s, bodies) ==
    /\ CanStart(s)
    /\ \E b \in bodies :
          req' = [req EXCEPT ![s] =
                    VerifyExpressBegin([IdleSlot EXCEPT !.handler = "server/verify-payment",
                                                        !.method = "POST", !.body = b],
                                       secret)]
    /\ UNCHANGED <<secret, orders, payments, now, conc>>

\* razorpay.payments.fetch answers the Express route
VerifyExpressPaymentFetched(s) ==
    /\ req[s].handler = "server/verify-payment"
    /\ req[s].pc = "awaitPayment"
    /\ \E up \in BOOLEAN :
          req' = [req EXCEPT ![s] =
                    VerifyExpressPayment(req[s],
                        Answer(~up, paymentsFetch(req[s].body.razorpay_payment_id)))]
    /\ UNCHANGED <<secret, orders, payments, now, conc>>

(***************************************************************************)
(* Order creation: api/create-order.ts, the Express route and the handler  *)
(* in the second half of src/server.ts.                                    *)
(***************************************************************************)
CreateHandlers == {"api/create-order", "server/create-order", "server/handler"}

AmountInputs == {Undef, Num(0), Num(-1), Num(1), Num(500), Str(<<"a", "b", "c">>)}
CurrencyInputs == {Undef, USD}
ReceiptInputs == {Undef, Str(<<"r">>)}

\* the bodies a client may post; only the handler of src/server.ts reads a
\* receipt from the body
CreateBodiesOf(h) ==
    {[amount |-> a, currency |-> c, receipt |-> rc] :
        a \in AmountInputs, c \in CurrencyInputs,
        rc \in IF h = "server/handler" THEN ReceiptInputs ELSE {Undef}}

\* every request to a create-order handler; on the Express application a GET
\* of the path falls through app.post to the last middleware
CreateInputs ==
    UNION {{[handler |-> h, method |-> m, body |-> b] :
                m \in IF h = "server/create-order" THEN {"POST", "GET"} ELSE Methods,
                b \in CreateBodiesOf(h)} : h \in CreateHandlers}

\* what a storefront client sends: an amount in rupees to the serverless handler
StorefrontCreateInputs ==
    {[handler |-> "api/create-order", method |-> "POST",
      body |-> [amount |-> a, currency |-> Undef, receipt |-> Undef]] :
        a \in {Num(0), Num(1), Num(500)}}

\* !amount || amount < 1
InvalidAmount(amount) == ~Truthy(amount) \/ LessThan(amount, 1)

\* `order_rcpt_${Date.now()}`
TimeReceipt(t) ==
    Str(<<"o", "r", "d", "e", "r", "_", "r", "c", "p", "t", "_">> \o DecimalDigits(t))

\* the options passed to razorpay.orders.create
CreateOptions(h, b, t) ==
    [amount |-> Times(b.amount, 100),
     currency |-> Default(b.currency, INR),
     receipt |-> IF h = "server/handler" THEN OrElse(b.receipt, TimeReceipt(t))
                 ELSE TimeReceipt(t),
     payment_capture |-> 1]

\* a create-order handler up to its await
CreateBegin(r, t) ==
    LET b == r.body
        h == r.handler IN
    IF h = "server/create-order" /\ r.method # "POST"
    THEN Respond(r, 404, [error |-> "Not found"])
    ELSE IF h # "server/create-order" /\ r.method = "OPTIONS"
    THEN Respond(r, 200, [ended |-> TRUE])
    ELSE IF h = "api/create-order" /\ r.method # "POST"
    THEN Respond(r, 405, [error |-> "Method not allowed"])
    ELSE IF h = "server/handler" /\ r.method # "POST"
    THEN Respond(r, 405, [success |-> FALSE, error |-> "Method not allowed"])
    ELSE IF InvalidAmount(b.amount)
    THEN Respond(r, 400,
            [success |-> FALSE,
             error |-> "Invalid amount. Amount must be greater than 0"])
    ELSE [r EXCEPT !.pc = "awaitCreate",
                   !.options = CreateOptions(h, b, t),
                   !.trace = Append(@, "orders.create")]

\* the catch block of a create-order handler
CreateCatch(r, e) ==
    Respond([r EXCEPT !.caught = e], 500,
        IF r.handler = "server/handler"
        THEN [success |-> FALSE,
              error |-> "Failed to create order",
              message |-> IF e.isError THEN e.message ELSE "Unknown error",
              details |-> IF e.isError
                          THEN [name |-> e.name, message |-> e.message, stack |-> TRUE]
                          ELSE [none |-> TRUE]]
        ELSE [success |-> FALSE,
              error |-> "Failed to create order",
              message |-> IF e.isError THEN e.message ELSE "Unknown error"])

\* the same, calling razorpay.orders.create once more after a failure
CreateEndRetrying(r, answer) ==
    IF ~answer.ok /\ Len(r.trace) < 2
    THEN [r EXCEPT !.trace = Append(@, "orders.create")]
    ELSE IF ~answer.ok THEN CreateCatch(r, answer.e)
    ELSE Respond(r, 200, [success |-> TRUE, order |-> answer.v])

\* a create-order handler from the gateway's answer to the end
CreateEnd(r, answer) ==
    IF ~answer.ok THEN CreateCatch(r, answer.e)
    ELSE
    LET order == answer.v IN
    IF r.handler = "server/handler"
    THEN Respond(r, 200,
            [success |-> TRUE,
             order |-> [id |-> order.id,
                        amount |-> order.amount,
                        currency |-> order.currency,
                        receipt |-> order.receipt,
                        status |-> order.status],
             key_id |-> "RAZORPAY_KEY_ID"])
    ELSE Respond(r, 200, [success |-> TRUE, order |-> order])

\* requests waiting for razorpay.orders.create
Creating == {t \in Slots : req[t].pc = "awaitCreate"}

\* the orders the model lets the gateway hold: MaxOrders when requests are
\* served one at a time, one more for each further request served at once
OrderCapacity == MaxOrders + (conc - 1)

\* a request reaches a create-order handler
CreateRequest(s, inputs) ==
    /\ CanStart(s)
    /\ Len(orders) + Cardinality(Creating) < OrderCapacity
    /\ \E in \in inputs :
          req' = [req EXCEPT ![s] =
                    CreateBegin([IdleSlot EXCEPT !.handler = in.handler,
                                                 !.method = in.method,
                                                 !.body = in.body], now)]
    /\ UNCHANGED <<secret, orders, payments, now, conc>>

\* razorpay.orders.create answers: the gateway records the order, or fails
CreateAnswered(s) ==
    /\ req[s].pc = "awaitCreate"
    /\ \E up \in BOOLEAN :
          LET accepted == up /\ GatewayAccepts(req[s].options)
              answer == Answer(~up, IF accepted THEN Return(NewOrder(req[s].options))
                                     ELSE Throw)
          IN  /\ req' = [req EXCEPT ![s] = CreateEnd(req[s], answer)]
              /\ orders' = IF accepted THEN Append(orders, NewOrder(req[s].options))
                           ELSE orders
    /\ UNCHANGED <<secret, payments, now, conc>>

(***************************************************************************)
(* The storefront, end to end: a client asks for an order, pays it through *)
(* the gateway's checkout and posts what the checkout returned (or a       *)
(* tampered copy) for verification.  Requests are served one at a time.    *)
(***************************************************************************)
Init ==
    /\ secret = Str(GatewayKey)
    /\ orders = <<>>
    /\ payments = <<>>
    /\ now = 0
    /\ conc = 1
    /\ req = [s \in Slots |-> IdleSlot]

Next ==
    \/ \E s \in Slots : CreateRequest(s, StorefrontCreateInputs)
    \/ \E s \in Slots : CreateAnswered(s)
    \/ GatewayPayment
    \/ \E s \in Slots : VerifyApiRequest(s, StorefrontVerifyInputs)
    \/ \E s \in Slots : VerifyApiOrderFetched(s)
    \/ \E s \in Slots : VerifyApiPaymentFetched(s)
    \/ \E s \in Slots : VerifyExpressRequest(s, CheckoutBodies \cup TamperedBodies)
    \/ \E s \in Slots : VerifyExpressPaymentFetched(s)
    \/ \E s \in Slots : Recycle(s)

Spec == Init /\ [][Next]_vars

(***************************************************************************)
(* The verifier against every gateway state within the bounds and every    *)
(* request body: the gateway's records are those that order creation and   *)
(* the checkout leave behind.                                              *)
(***************************************************************************)
SecretInputs == {Undef, Str(GatewayKey)}

\* the amounts (in rupees) of the orders on record
OrderedAmounts == {Num(1), Num(500)}

OrderTables ==
    UNION {{[i \in 1..n |->
                OrderRecord(i, CreateOptions("api/create-order",
                    [amount |-> am[i], currency |-> Undef, receipt |-> Undef], 0))] :
            am \in [1..n -> OrderedAmounts]} : n \in 0..MaxOrders}

PaymentTables(ords) ==
    UNION {{[j \in 1..n |->
                PaymentRecord(j, ords[pm[j][1]], pm[j][2], pm[j][3], 0)] :
            pm \in [1..n -> (1..Len(ords)) \X PaymentStatuses \X {0, 1}]} :
           n \in 0..MaxPayments}

InitVerify ==
    /\ secret \in SecretInputs
    /\ orders \in OrderTables
    /\ payments \in PaymentTables(orders)
    /\ now = 0
    /\ conc = 1
    /\ req = [s \in Slots |-> IdleSlot]

NextVerify ==
    \/ \E s \in Slots : VerifyApiRequest(s, VerifyInputs)
    \/ \E s \in Slots : VerifyApiOrderFetched(s)
    \/ \E s \in Slots : VerifyApiPaymentFetched(s)
    \/ \E s \in Slots : VerifyExpressRequest(s, PlainBodies)
    \/ \E s \in Slots : VerifyExpressPaymentFetched(s)
    \/ \E s \in Slots : Recycle(s)

SpecVerify == InitVerify /\ [][NextVerify]_vars

(***************************************************************************)
(* Order creation under every request and the passing of time.            *)
(***************************************************************************)
NextCreate ==
    \/ \E s \in Slots : CreateRequest(s, CreateInputs)
    \/ \E s \in Slots : CreateAnswered(s)
    \/ \E s \in Slots : Recycle(s)
    \/ Tick

SpecCreate == Init /\ [][NextCreate]_vars

(***************************************************************************)
(* Two requests at a time against the serverless handlers: order creation  *)
(* and verification interleave at their awaits, within one tick of the     *)
(* clock.  The gateway holds the records of earlier checkouts.             *)
(***************************************************************************)
\* earlier orders, of 500 rupees each
EarlierOrders == {t \in OrderTables : \A i \in 1..Len(t) : t[i].amount = Num(50000)}

\* one payment for each earlier order, in any status, whole or partial
EarlierPayments(ords) ==
    {p \in PaymentTables(ords) :
        /\ Len(p) = Len(ords)
        /\ \A j \in 1..Len(p) : p[j].order_id = ords[j].id}

InitConcurrent ==
    /\ secret = Str(GatewayKey)
    /\ orders \in EarlierOrders
    /\ payments \in EarlierPayments(orders)
    /\ now = 0
    /\ conc = 2
    /\ req = [s \in Slots |-> IdleSlot]

NextConcurrent ==
    \/ \E s \in Slots : CreateRequest(s, StorefrontCreateInputs)
    \/ \E s \in Slots : CreateAnswered(s)
    \/ \E s \in Slots : VerifyApiRequest(s, StorefrontVerifyInputs)
    \/ \E s \in Slots : VerifyApiOrderFetched(s)
    \/ \E s \in Slots : VerifyApiPaymentFetched(s)
    \/ \E s \in Slots : Recycle(s)

SpecConcurrent == InitConcurrent /\ [][NextConcurrent]_vars

(***************************************************************************)
(* The serverless verification handler, one attempt at a time, with every  *)
(* gateway call answered in the end: the client awaits the promise of      *)
(* razorpay.orders.fetch and of razorpay.payments.fetch, and each settles. *)
(***************************************************************************)
InitAttempts ==
    /\ secret = Str(GatewayKey)
    /\ orders \in EarlierOrders
    /\ payments \in EarlierPayments(orders)
    /\ now = 0
    /\ conc = 1
    /\ req = [s \in Slots |-> IdleSlot]

NextAttempts ==
    \/ \E s \in Slots : VerifyApiRequest(s, VerifyInputs)
    \/ \E s \in Slots : VerifyApiOrderFetched(s)
    \/ \E s \in Slots : VerifyApiPaymentFetched(s)
    \/ \E s \in Slots : Recycle(s)

SpecAttempts ==
    /\ InitAttempts /\ [][NextAttempts]_vars
    /\ \A s \in Slots : WF_vars(VerifyApiOrderFetched(s))
    /\ \A s \in Slots : WF_vars(VerifyApiPaymentFetched(s))

(***************************************************************************)
(* Properties.                                                             *)
(***************************************************************************)
VerifyHandlers == {"api/verify-payment", "server/verify-payment"}

Verifying(s) == req[s].handler \in VerifyHandlers

\* the request has been answered 200 with success: true
Succeeded(r) ==
    /\ r.pc = "done"
    /\ r.res.status = 200
    /\ "success" \in DOMAIN r.res.body
    /\ r.res.body.success

\* the request has been answered with this status and this error
Rejected(r, code, error) ==
    /\ r.pc = "done"
    /\ r.res.status = code
    /\ "error" \in DOMAIN r.res.body
    /\ r.res.body.error = error

InTrace(r, step) == \E i \in 1..Len(r.trace) : r.trace[i] = step

GatewayCalls == {"orders.create", "orders.fetch", "payments.fetch"}

FieldsPresent(b) ==
    /\ Truthy(b.razorpay_order_id)
    /\ Truthy(b.razorpay_payment_id)
    /\ Truthy(b.razorpay_signature)

\* the submitted signature is the digest of "{order_id}|{payment_id}" under
\* the shared secret
SignatureCorrect(b) ==
    /\ IsStr(b.razorpay_signature)
    /\ b.razorpay_signature.s =
          GatewaySignature(KeySecret(secret), b.razorpay_order_id, b.razorpay_payment_id)

\* C1: a verification succeeds only if the signature is the expected one,
\* the gateway's payment record is captured and its amount is the amount of
\* the gateway's order record.
C1_AcceptanceRequiresAll ==
    \A s \in Slots :
        Verifying(s) /\ Succeeded(req[s]) =>
            LET b == req[s].body
                o == ordersFetch(b.razorpay_order_id)
                p == paymentsFetch(b.razorpay_payment_id)
            IN  /\ SignatureCorrect(b)
                /\ p.ok /\ p.v.status = "captured"
                /\ o.ok /\ p.v.amount = o.v.amount

\* C2: once the three fields are present and the signatures are compared, a
\* signature whose length is not the digest's ends in 400 "Invalid signature".
C2_LengthMismatchIsInvalidSignature ==
    \A s \in Slots :
        LET r == req[s] IN
        /\ Verifying(s) /\ r.pc = "done"
        /\ InTrace(r, "timingSafeEqual")
        /\ Len(r.body.razorpay_signature.s) # DigestLen
        => Rejected(r, 400, "Invalid signature")

\* an amount below 1, absent or not numeric
BelowOne(a) ==
    \/ a = Undef
    \/ IsNum(a) /\ a.n < 1
    \/ IsStr(a) /\ \E i \in 1..Len(a.s) : ~IsDigit(a.s[i])

\* C3: a posted create-order request whose amount is below 1, absent or not
\* numeric is answered 400 "Invalid amount" and calls orders.create never.
C3_InvalidAmountRejectedLocally ==
    \A s \in Slots :
        LET r == req[s] IN
        /\ r.handler \in CreateHandlers /\ r.method = "POST"
        /\ BelowOne(r.body.amount)
        => /\ Rejected(r, 400, "Invalid amount. Amount must be greater than 0")
           /\ ~InTrace(r, "orders.create")

\* C4: no gateway call is issued before the signatures have been compared,
\* and a posted attempt with its fields present and a wrong signature ends in
\* 400 "Invalid signature" whatever the gateway answers.
C4_SignatureBeforeGateway ==
    \A s \in Slots :
        LET r == req[s] IN
        Verifying(s) =>
            /\ \A i \in 1..Len(r.trace) :
                  r.trace[i] \in GatewayCalls =>
                      \E j \in 1..(i - 1) : r.trace[j] = "timingSafeEqual"
            /\ (/\ r.pc = "done" /\ r.method = "POST" /\ r.body.error = Undef
                /\ FieldsPresent(r.body) /\ ~SignatureCorrect(r.body))
               => Rejected(r, 400, "Invalid signature")

\* C5: with a correct signature, a fetched payment whose order_id is not the
\* submitted order id is not accepted.
C5_ForeignPaymentRejected ==
    \A s \in Slots :
        LET r == req[s] IN
        /\ Verifying(s) /\ r.pc = "done"
        /\ SignatureCorrect(r.body)
        /\ r.paymentDetails # Undef
        /\ r.paymentDetails.order_id # r.body.razorpay_order_id
        => ~Succeeded(r)

\* the secrets a deployment may be configured with
KeyEnvs == SecretInputs \cup {Str(<<"k", "2">>)}

\* the same request with the same gateway answer, handled under secret env,
\* from the start up to the comparison of the signatures
RunUnder(r, env) ==
    LET r0 == [IdleSlot EXCEPT !.handler = r.handler, !.method = r.method,
                               !.body = r.body]
    IN  IF r.handler = "api/verify-payment"
        THEN VerifyApiOrder(VerifyApiBegin(r0), env, Return(r.orderDetails))
        ELSE VerifyExpressBegin(r0, env)

\* C6: two runs that differ only in the secret and both reject the request
\* for its signature return the same response body.
C6_RejectionIndependentOfSecret ==
    \A s \in Slots :
        LET r == req[s] IN
        Verifying(s) /\ Rejected(r, 400, "Invalid signature") =>
            \A env \in KeyEnvs :
                Rejected(RunUnder(r, env), 400, "Invalid signature") =>
                    RunUnder(r, env).res.body = r.res.body

\* the errors that name a field the body lacks
MissingFieldErrors(b) ==
    {e \in {"Missing order ID", "Missing payment ID", "Missing signature"} :
        \/ e = "Missing order ID" /\ ~Truthy(b.razorpay_order_id)
        \/ e = "Missing payment ID" /\ ~Truthy(b.razorpay_payment_id)
        \/ e = "Missing signature" /\ ~Truthy(b.razorpay_signature)}

\* C7: a posted attempt lacking order id, payment id or signature is answered
\* 400 with an error naming a missing field, and issues no gateway call.
C7_MissingFieldNamed ==
    \A s \in Slots :
        LET r == req[s] IN
        /\ Verifying(s) /\ r.method = "POST" /\ r.body.error = Undef
        /\ ~FieldsPresent(r.body)
        => /\ r.pc = "done" /\ r.res.status = 400
           /\ r.res.body.error \in MissingFieldErrors(r.body)
           /\ r.trace = <<>>

\* C8: with a correct signature, a fetched payment record (the gateway's
\* record of the submitted payment id) whose status is not "captured" ends in
\* 400 "Payment not captured" reporting that status.
C8_NotCapturedReported ==
    \A s \in Slots :
        LET r == req[s]
            p == paymentsFetch(r.body.razorpay_payment_id)
        IN  /\ Verifying(s) /\ r.pc = "done"
            /\ r.paymentDetails # Undef
            /\ r.paymentDetails.status # "captured"
            /\ SignatureCorrect(r.body)
            => /\ p.ok /\ r.paymentDetails = p.v
               /\ Rejected(r, 400, "Payment not captured")
               /\ r.res.body.status = p.v.status

C8_Witness ==
    \E s \in Slots :
        /\ req[s].handler = "api/verify-payment"
        /\ SignatureCorrect(req[s].body)
        /\ Rejected(req[s], 400, "Payment not captured")
        /\ req[s].res.body.status = "authorized"

\* C9: with a correct signature and a captured payment whose amount is not
\* the order's, the attempt ends in 400 "Payment amount mismatch" reporting
\* both amounts.
C9_AmountMismatchReported ==
    \A s \in Slots :
        LET r == req[s]
            o == ordersFetch(r.body.razorpay_order_id)
        IN  /\ Verifying(s) /\ r.pc = "done"
            /\ SignatureCorrect(r.body)
            /\ r.paymentDetails # Undef
            /\ r.paymentDetails.status = "captured"
            /\ o.ok /\ r.paymentDetails.amount # o.v.amount
            => /\ Rejected(r, 400, "Payment amount mismatch")
               /\ r.res.body.details.orderAmount = o.v.amount
               /\ r.res.body.details.paymentAmount = r.paymentDetails.amount

\* C10: end to end, an order created for a rupees stands at a * 100 in the
\* gateway, and a posted attempt carrying what the checkout returned for a
\* captured payment of the order's amount succeeds and echoes the gateway's
\* amount, unless the gateway was unreachable.
C10_MatchingPaymentAccepted ==
    \A s \in Slots :
        LET r == req[s] IN
        /\ Verifying(s) /\ r.pc = "done" /\ r.method = "POST"
        /\ r.body \in CheckoutBodies
        /\ r.caught # NetworkError
        => LET o == ordersFetch(r.body.razorpay_order_id).v
               p == paymentsFetch(r.body.razorpay_payment_id).v
           IN  /\ o.amount \in {Times(a, 100) : a \in {Num(1), Num(500)}}
               /\ p.status = "captured" /\ p.amount = o.amount
                  => /\ Succeeded(r)
                     /\ r.res.body.payment.amount = o.amount

C10_Witness ==
    \E s \in Slots :
        /\ req[s].handler = "api/verify-payment"
        /\ req[s].body \in CheckoutBodies
        /\ Succeeded(req[s])
        /\ req[s].res.body.payment.amount = Num(50000)
        /\ req[s].res.body.order.currency = INR

\* C11: a posted create-order request whose amount a is a number of at least
\* 1 calls orders.create with amount a * 100 and with the body's currency,
\* or "INR" when the body has none.
C11_AmountInMinorUnits ==
    \A s \in Slots :
        LET r == req[s] IN
        /\ r.handler \in CreateHandlers /\ r.method = "POST"
        /\ IsNum(r.body.amount) /\ r.body.amount.n >= 1
        => /\ InTrace(r, "orders.create")
           /\ r.options.amount = Num(r.body.amount.n * 100)
           /\ r.options.currency =
                 (IF r.body.currency = Undef THEN INR ELSE r.body.currency)

C11_Witness ==
    \E s \in Slots :
        /\ req[s].handler = "server/handler"
        /\ req[s].body.amount = Num(500) /\ req[s].body.currency = Undef
        /\ req[s].pc = "awaitCreate"
        /\ req[s].options.amount = Num(50000) /\ req[s].options.currency = INR

\* a create-order request that left the receipt to the handler and reached
\* the gateway call
OwnReceipt(r) ==
    /\ r.handler \in CreateHandlers
    /\ r.body.receipt = Undef
    /\ InTrace(r, "orders.create")

\* C12: two create-order requests that supply no receipt reach orders.create
\* with different receipts.
C12_ReceiptsDistinct ==
    \A s, t \in Slots :
        s # t /\ OwnReceipt(req[s]) /\ OwnReceipt(req[t])
            => req[s].options.receipt # req[t].options.receipt

\* the response body carries the message, the name or the stack of exception e
CarriesException(body, e) ==
    \/ "message" \in DOMAIN body /\ e.isError /\ body.message = e.message
    \/ /\ "details" \in DOMAIN body
       /\ \/ "stack" \in DOMAIN body.details
          \/ "name" \in DOMAIN body.details
          \/ "message" \in DOMAIN body.details

\* C13: a request whose gateway call failed is answered 500 with a body that
\* carries neither the exception's message nor its name nor its stack.
C13_GatewayFailureGeneric ==
    \A s \in Slots :
        LET r == req[s] IN
        r.pc = "done" /\ r.caught \in {NetworkError, ApiRejection} =>
            /\ r.res.status = 500
            /\ ~CarriesException(r.res.body, r.caught)

\* two answered attempts of the serverless handler with the same method and
\* body, neither cut short by an unreachable gateway
SameAttempt(s, t) ==
    /\ req[s].handler = "api/verify-payment" /\ req[t].handler = "api/verify-payment"
    /\ req[s].pc = "done" /\ req[t].pc = "done"
    /\ req[s].method = req[t].method /\ req[s].body = req[t].body
    /\ req[s].caught # NetworkError /\ req[t].caught # NetworkError

\* a step of a verification attempt
VerifyStep ==
    \E s \in Slots :
        /\ req'[s] # req[s]
        /\ req[s].handler = "api/verify-payment" \/ req'[s].handler = "api/verify-payment"

\* C14: the same order id, payment id and signature submitted again get the
\* same response as long as the gateway answers, and no step of a
\* verification attempt changes the secret or the gateway's records.
C14_VerificationIdempotent ==
    /\ [](\A s, t \in Slots : SameAttempt(s, t) => req[s].res = req[t].res)
    /\ [][VerifyStep => UNCHANGED <<secret, orders, payments>>]_vars

\* an accepted attempt beside the same attempt accepted again
C14_Witness ==
    \E s, t \in Slots :
        /\ s # t /\ SameAttempt(s, t)
        /\ Succeeded(req[s]) /\ Succeeded(req[t])

\* C15: a request to a create-order or verify-payment handler with a method
\* other than POST is answered 405 "Method not allowed" and issues no
\* gateway call.
C15_NonPostIs405 ==
    \A s \in Slots :
        LET r == req[s] IN
        r.handler # "none" /\ r.method # "POST" =>
            /\ Rejected(r, 405, "Method not allowed")
            /\ r.trace = <<>>

\* the request of slot record r as it arrived
Arrived(r) ==
    [IdleSlot EXCEPT !.handler = r.handler, !.method = r.method, !.body = r.body]

\* the request of r handled alone by api/verify-payment.ts as far as r has
\* come, the gateway being reachable at each call when it was for r
VerifyApiAlone(r) ==
    LET a == VerifyApiBegin(Arrived(r))
        b == IF a.pc = "awaitOrder" /\ r.pc # "awaitOrder"
             THEN VerifyApiOrder(a, secret,
                      Answer(r.caught = NetworkError /\ r.orderDetails = Undef,
                             ordersFetch(r.body.razorpay_order_id)))
             ELSE a
    IN  IF b.pc = "awaitPayment" /\ r.pc # "awaitPayment"
        THEN VerifyApiPayment(b,
                 Answer(r.caught = NetworkError,
                        paymentsFetch(r.body.razorpay_payment_id)))
        ELSE b

\* the order of the gateway that the response of r names
OrderAnswered(r) ==
    IF r.caught # NothingCaught THEN [ok |-> FALSE, e |-> r.caught]
    ELSE ordersFetch(r.res.body.order.id)

\* the request of r handled alone by a create-order handler as far as r has
\* come, with the gateway's answer to its own call
CreateAlone(r) ==
    LET a == CreateBegin(Arrived(r), now)
    IN  IF a.pc = "awaitCreate" /\ r.pc # "awaitCreate"
        THEN CreateEnd(a, OrderAnswered(r))
        ELSE a

\* C16: whatever the other request does, a request stands where it stands
\* when handled alone against the same gateway, with the same locals and the
\* same response, and no step changes the locals or the response of two
\* requests.
C16_OutcomeAsAlone ==
    /\ [](\A s \in Slots :
              /\ req[s].handler = "api/verify-payment" => req[s] = VerifyApiAlone(req[s])
              /\ req[s].handler \in CreateHandlers => req[s] = CreateAlone(req[s]))
    /\ [][\A s, t \in Slots : s # t /\ req'[s] # req[s] => req'[t] = req[t]]_vars

\* an order created by a request that arrived and was answered while a
\* verification attempt with a good signature awaits its payment fetch
C16_Witness ==
    /\ req["r1"].handler = "api/verify-payment" /\ req["r1"].pc = "awaitPayment"
    /\ req["r2"].handler = "api/create-order" /\ Succeeded(req["r2"])
    /\ req["r2"].res.body.order.id # req["r1"].orderDetails.id
    /\ req["r2"].res.body.order.amount = Num(100)

\* how many times a request has issued the gateway call
Calls(r, call) == Cardinality({i \in 1..Len(r.trace) : r.trace[i] = call})

\* C17: a request issues each gateway call at most once, and a create-order
\* request whose orders.create failed has ended after that one call with 500
\* "Failed to create order".
C17_NoRetry ==
    \A s \in Slots :
        LET r == req[s] IN
        /\ \A call \in GatewayCalls : Calls(r, call) <= 1
        /\ r.handler \in CreateHandlers /\ r.caught # NothingCaught =>
              /\ Rejected(r, 500, "Failed to create order")
              /\ Calls(r, "orders.create") = 1

\* an order creation ended by the failure of its one gateway call
C17_Witness ==
    \E s \in Slots :
        /\ req[s].handler = "api/create-order"
        /\ req[s].caught = NetworkError
        /\ Rejected(req[s], 500, "Failed to create order")
        /\ req[s].trace = <<"orders.create">>

\* the ways an invocation of api/verify-payment.ts ends
TerminalOutcomes ==
    {<<200, "ended">>, <<405, "Method not allowed">>, <<400, "Payment failed">>,
     <<400, "Missing order ID">>, <<400, "Missing payment ID">>,
     <<400, "Missing signature">>, <<400, "Invalid signature">>,
     <<400, "Payment not captured">>, <<400, "Payment amount mismatch">>,
     <<200, "success">>, <<500, "Payment verification failed">>}

\* the status of a response with its error, or what it says instead
Outcome(res) ==
    <<res.status,
      IF "error" \in DOMAIN res.body THEN res.body.error
      ELSE IF "success" \in DOMAIN res.body THEN "success"
      ELSE "ended">>

Awaiting(s) ==
    /\ req[s].handler = "api/verify-payment"
    /\ req[s].pc \in {"awaitOrder", "awaitPayment"}

\* C18: every invocation of the serverless verification handler that awaits
\* a gateway call is answered in the end; an answered invocation has sent one
\* of the terminal outcomes, an unanswered one has sent nothing, and after
\* the response nothing of the invocation changes until the slot is free.
C18_OneTerminalOutcome ==
    /\ \A s \in Slots : Awaiting(s) ~> req[s].pc = "done"
    /\ [](\A s \in Slots :
              req[s].handler = "api/verify-payment" =>
                  /\ req[s].pc = "done" <=> req[s].res # NoResponse
                  /\ req[s].pc = "done" => Outcome(req[s].res) \in TerminalOutcomes)
    /\ [][\A s \in Slots :
              req[s].pc = "done" => req'[s] = req[s] \/ req'[s] = IdleSlot]_vars

\* an attempt answered after both of its gateway calls
C18_Witness ==
    \E s \in Slots :
        /\ req[s].handler = "api/verify-payment" /\ req[s].pc = "done"
        /\ req[s].trace = <<"orders.fetch", "timingSafeEqual", "payments.fetch">>
        /\ Outcome(req[s].res) = <<400, "Payment amount mismatch">>

\* C19: a body without an error field answered by the Express route, the
\* gateway being reachable, gets a status of the same class and the same
\* decision as from the serverless handler against the same gateway records.
C19_SameDecision ==
    \A s \in Slots :
        LET r == req[s] IN
        /\ r.handler = "server/verify-payment" /\ r.pc = "done"
        /\ r.body.error = Undef
        /\ r.caught # NetworkError
        => LET a == VerifyApiAlone([r EXCEPT !.handler = "api/verify-payment"])
           IN  /\ a.res.status \div 100 = r.res.status \div 100
               /\ Succeeded(a) <=> Succeeded(r)

\* C20: a posted body with a truthy error field is answered by the serverless
\* handler with 400 "Payment failed" carrying that error, whatever else the
\* body holds, and no gateway call or signature comparison is made for it.
C20_ErrorFieldRejectedFirst ==
    \A s \in Slots :
        LET r == req[s] IN
        /\ r.handler = "api/verify-payment" /\ r.method = "POST"
        /\ Truthy(r.body.error)
        => /\ Rejected(r, 400, "Payment failed")
           /\ r.res.body.details = r.body.error
           /\ r.trace = <<>>

\* such a body with the ids and the correct signature of a captured payment
\* of the order's amount
C20_Witness ==
    \E s \in Slots :
        LET b == req[s].body IN
        /\ req[s].handler = "api/verify-payment"
        /\ Rejected(req[s], 400, "Payment failed")
        /\ paymentsFetch(b.razorpay_payment_id).ok /\ ordersFetch(b.razorpay_order_id).ok
        /\ paymentsFetch(b.razorpay_payment_id).v.status = "captured"
        /\ paymentsFetch(b.razorpay_payment_id).v.amount =
              ordersFetch(b.razorpay_order_id).v.amount
        /\ SignatureCorrect(b)

====
